---- MODULE Spec2Model ----
(***************************************************************************)
(* Model of src/app.js: the ResourceTracker class (track, untrack,         *)
(* dispose) and the program built on it in main(): addStuffToScene, the    *)
(* endless process() driver with its two timed waits, and the animate()    *)
(* render callback.                                                        *)
(*                                                                         *)
(* Two specifications share the definitions of the tracker:                *)
(*   Spec     a client that calls track / untrack / dispose on one tracker *)
(*            with arbitrary values, and attaches meshes to the scene;     *)
(*   SpecApp  main() itself: process() and animate() on the event loop.    *)
(***************************************************************************)
EXTENDS Integers, Sequences, FiniteSets, TLC

VARIABLES
  resources,   \* tracker -> its Set, as the sequence of members in insertion order
  parent,      \* mesh -> the Object3D it is attached to, or NoParent
  children,    \* scene.children
  released,    \* object -> number of times its dispose() method was invoked
  nodeDispose, \* the dispose property of the mesh objects: "none" (a THREE.Mesh),
               \* "fn" (an Object3D with a dispose method), "notfn" (truthy, not a function)
  log,         \* effects of the most recent tracker call, in order
  ret,         \* value returned by the most recent tracker call
  threw,       \* whether the most recent tracker call raised a TypeError
  last,        \* the client's most recent call: its name and argument
  before,      \* the set of the client's tracker when that call was made
  prev,        \* when the most recent call is dispose(): the call made before it
  cubes,       \* the cubes array of main
  pc,          \* where process() stands: "main" (not called yet), "wait2" and "wait1"
               \* (suspended in its first and second await), "rejected" (left by a throw)
  resTracker,  \* the resTracker of the current iteration of process()
  timer,       \* seconds of the pending setTimeout of waitSeconds, 0 when none is pending
  raf,         \* number of pending requestAnimationFrame callbacks
  client,      \* <<canvas.clientWidth, canvas.clientHeight>>
  backing,     \* <<canvas.width, canvas.height>>
  aspect,      \* camera.aspect, as <<numerator, denominator>>
  rotation,    \* mesh -> <<rotation.x, rotation.y>>, in units of 0.0001 rad
  frame        \* when the most recent step is a frame: what it did, in order, its
               \* timestamp, and the canvas size and camera.aspect it rendered with

trackerVars == <<resources, parent, children, released, nodeDispose, log, ret, threw,
                 last, before, prev>>
appVars == <<cubes, pc, resTracker, timer, raf, client, backing, aspect, rotation, frame>>
vars == <<trackerVars, appVars>>

----------------------------------------------------------------------------
(* Bounds *)

\* Cap on the number of times one object's dispose() is invoked in a run.
MaxRelease == 2
\* Number of batches whose objects can be reachable at a time: the objects of a batch
\* live in a slot, and a slot is free for new objects once nothing refers to its old ones.
NumSlots == 2
\* Canvas widths and heights range over 1..MaxSize.
MaxSize == 2
\* Frame timestamps range over 0..MaxTime milliseconds.
MaxTime == 2

----------------------------------------------------------------------------
(* Values *)

Slots == 1..NumSlots

geometry(b) == <<"geometry", b>>
texture(b)  == <<"texture", b>>
material(b) == <<"material", b>>
mesh(b)     == <<"mesh", b>>
scene       == <<"scene", 0>>
\* a plain value: neither a dispose property nor an Object3D
number      == <<"number", 0>>
\* null: reading a property of it raises a TypeError
null        == <<"null", 0>>
\* what a method without a return statement returns
undefined   == <<"undefined", 0>>
\* Object3D.parent of a detached node
NoParent    == <<"noparent", 0>>

Frame(steps, t, size, asp) == [steps |-> steps, t |-> t, size |-> size, aspect |-> asp]
\* the most recent step is not a frame
NoFrame == Frame(<<>>, 0, <<0, 0>>, <<0, 0>>)

Kind(v) == v[1]

Meshes == {mesh(b) : b \in Slots}
Disposables == {geometry(b) : b \in Slots} \cup {texture(b) : b \in Slots}
                 \cup {material(b) : b \in Slots}
Objects == Disposables \cup Meshes

\* The objects a value references: a material its map, a mesh its geometry and material.
Refs(v) ==
  CASE Kind(v) = "material" -> {texture(v[2])}
    [] Kind(v) = "mesh"     -> {geometry(v[2]), material(v[2])}
    [] OTHER                -> {}

Range(s) == {s[i] : i \in 1..Len(s)}

\* resource.dispose, as the code reads it: "fn" a method, "notfn" a truthy non-function,
\* "none" absent
DisposeAttr(v, nd) ==
  CASE Kind(v) \in {"geometry", "texture", "material"} -> "fn"
    [] Kind(v) = "mesh"  -> nd
    [] OTHER             -> "none"

\* resource instanceof THREE.Object3D
IsObject3D(v) == Kind(v) \in {"mesh", "scene"}

\* A faulty variant of SetAdd: an array push, which keeps duplicates
SetAddPush(s, x) == Append(s, x)

\* Set.prototype.add
SetAdd(s, x) == IF x \in Range(s) THEN s ELSE Append(s, x)

\* Set.prototype.delete
SetDelete(s, x) == SelectSeq(s, LAMBDA y : y # x)

----------------------------------------------------------------------------
(* ResourceTracker *)

tracker(b) == <<"tracker", b>>

\* A faulty variant of TrackAdds: && in place of ||
TrackAddsBoth(x, nd) == DisposeAttr(x, nd) # "none" /\ IsObject3D(x)

\* The condition of track: resource.dispose || resource instanceof THREE.Object3D
TrackAdds(x, nd) == DisposeAttr(x, nd) # "none" \/ IsObject3D(x)

\* Reading resource.dispose raises a TypeError when resource is null
TrackThrows(x) == x = null

\* A faulty variant of TrackSet: the resource is returned without being added
TrackSetForgets(s, x, nd) == s

\* The tracked set after track(x)
TrackSet(s, x, nd) == IF TrackAdds(x, nd) THEN SetAdd(s, x) ELSE s

\* What track(x) returns
TrackRet(x) == x

\* A faulty variant of UntrackSet: deleting a member empties the set
UntrackSetClears(s, x) == IF x \in Range(s) THEN <<>> ELSE s

\* A faulty variant of UntrackSet: nothing is deleted
UntrackSetKeeps(s, x) == s

\* The tracked set after untrack(x)
UntrackSet(s, x) == SetDelete(s, x)

\* A faulty variant of Detach: the parent link is cleared, the parent's children kept
DetachParentOnly(st, r) ==
  [st EXCEPT !.parent[r] = NoParent,
             !.log = Append(st.log, <<"detach", r>>)]

\* resource.parent.remove(resource): Object3D.remove clears the child's parent and
\* takes it out of the parent's children
Detach(st, r) ==
  [st EXCEPT !.parent[r] = NoParent,
             !.children = SetDelete(st.children, r),
             !.log = Append(st.log, <<"detach", r>>)]

\* A faulty variant of Release: an object released before is not released again
ReleaseOnce(st, r) ==
  IF st.released[r] > 0 THEN st
  ELSE [st EXCEPT !.released[r] = 1, !.log = Append(st.log, <<"release", r>>)]

\* A faulty variant of Release: the release cascades to what the object references
ReleaseCascade(st, r) ==
  [st EXCEPT !.released = [o \in DOMAIN st.released |->
                             IF o = r \/ o \in Refs(r) THEN st.released[o] + 1
                             ELSE st.released[o]],
             !.log = Append(st.log, <<"release", r>>)]

\* resource.dispose(): the object's own release, and of nothing it references
Release(st, r) ==
  [st EXCEPT !.released[r] = st.released[r] + 1,
             !.log = Append(st.log, <<"release", r>>)]

\* A faulty variant of DisposeOne: nodes are detached, nothing is released
DisposeOneDetachOnly(st, r, nd) ==
  IF IsObject3D(r) /\ st.parent[r] # NoParent THEN Detach(st, r) ELSE st

\* One iteration of the loop of dispose, on resource r
DisposeOne(st, r, nd) ==
  LET st1 == IF IsObject3D(r) /\ st.parent[r] # NoParent THEN Detach(st, r) ELSE st
  IN CASE DisposeAttr(r, nd) = "fn"    -> Release(st1, r)
       [] DisposeAttr(r, nd) = "notfn" -> [st1 EXCEPT !.threw = TRUE]
       [] OTHER                        -> st1

\* A faulty variant of DisposeLoop: the loop is left after its first iteration
DisposeLoopFirstOnly(rs, st, nd) ==
  IF rs = <<>> THEN st ELSE DisposeOne(st, Head(rs), nd)

\* for (const resource of this.resources): in insertion order, left by a TypeError
RECURSIVE DisposeLoop(_, _, _)
DisposeLoop(rs, st, nd) ==
  IF rs = <<>> \/ st.threw THEN st
  ELSE DisposeLoop(Tail(rs), DisposeOne(st, Head(rs), nd), nd)

\* A faulty variant of DisposeSet: the set is cleared also when the loop raises
DisposeSetClears(s, st) == <<>>

\* A faulty variant of DisposeSet: this.resources.clear() left out
DisposeSetKeeps(s, st) == s

\* The tracked set after dispose: cleared, unless the loop was left by a TypeError
DisposeSet(s, st) == IF st.threw THEN s ELSE <<>>

\* dispose() of the tracker whose set is s
DisposeRun(s, p, c, rel, nd) ==
  DisposeLoop(s, [parent |-> p, children |-> c, released |-> rel,
                  log |-> <<>>, threw |-> FALSE], nd)

\* scene.add(n): Object3D.add takes n from its old parent and appends it
AddChildren(c, n) == Append(SetDelete(c, n), n)

----------------------------------------------------------------------------
(* A client of one tracker *)

T0 == tracker(0)

\* The values the client passes to track and untrack
Inputs == {geometry(1), texture(1), material(1), mesh(1), number, null}

Call(op, arg) == [op |-> op, arg |-> arg]

\* no call yet: the tracker has just been constructed
NoCall == Call("new", undefined)

Init ==
  /\ resources = [t \in {T0} |-> <<>>]
  /\ parent = [n \in Meshes |-> NoParent]
  /\ children = <<>>
  /\ released = [o \in Objects |-> 0]
  /\ nodeDispose \in {"none", "fn", "notfn"}
  /\ log = <<>>
  /\ ret = undefined
  /\ threw = FALSE
  /\ last = NoCall
  /\ before = <<>>
  /\ prev = NoCall
  /\ cubes = <<>>
  /\ pc = "main"
  /\ resTracker = undefined
  /\ timer = 0
  /\ raf = 0
  /\ client = <<1, 1>>
  /\ backing = <<1, 1>>
  /\ aspect = <<2, 1>>
  /\ rotation = [n \in Meshes |-> <<0, 0>>]
  /\ frame = NoFrame

track(x) ==
  /\ threw' = TrackThrows(x)
  /\ resources' = IF TrackThrows(x) THEN resources
                  ELSE [resources EXCEPT ![T0] = TrackSet(resources[T0], x, nodeDispose)]
  /\ ret' = IF TrackThrows(x) THEN undefined ELSE TrackRet(x)
  /\ log' = <<>>
  /\ last' = Call("track", x)
  /\ before' = resources[T0]
  /\ prev' = NoCall
  /\ UNCHANGED <<parent, children, released, nodeDispose, appVars>>

untrack(x) ==
  /\ resources' = [resources EXCEPT ![T0] = UntrackSet(resources[T0], x)]
  /\ ret' = undefined
  /\ threw' = FALSE
  /\ log' = <<>>
  /\ last' = Call("untrack", x)
  /\ before' = resources[T0]
  /\ prev' = NoCall
  /\ UNCHANGED <<parent, children, released, nodeDispose, appVars>>

dispose ==
  LET st == DisposeRun(resources[T0], parent, children, released, nodeDispose)
  IN /\ \A r \in Range(resources[T0]) : released[r] < MaxRelease
     /\ resources' = [resources EXCEPT ![T0] = DisposeSet(resources[T0], st)]
     /\ parent' = st.parent
     /\ children' = st.children
     /\ released' = st.released
     /\ log' = st.log
     /\ threw' = st.threw
     /\ ret' = undefined
     /\ last' = Call("dispose", undefined)
     /\ before' = resources[T0]
     /\ prev' = last
     /\ UNCHANGED <<nodeDispose, appVars>>

\* The client attaches a mesh to the scene
sceneAdd(n) ==
  /\ parent[n] # scene
  /\ parent' = [parent EXCEPT ![n] = scene]
  /\ children' = AddChildren(children, n)
  /\ ret' = scene
  /\ threw' = FALSE
  /\ log' = <<>>
  /\ last' = Call("add", n)
  /\ before' = resources[T0]
  /\ prev' = NoCall
  /\ UNCHANGED <<resources, released, nodeDispose, appVars>>

Next ==
  \/ \E x \in Inputs : track(x)
  \/ \E x \in Inputs : untrack(x)
  \/ dispose
  \/ sceneAdd(mesh(1))

Spec == Init /\ [][Next]_vars

----------------------------------------------------------------------------
(* main(): the batch driver process() and the render callback animate() *)

\* await waitSeconds(2), between creating a batch and disposing of it
CreateToDestroy == 2
\* await waitSeconds(1), between disposing of a batch and creating the next
DestroyToCreate == 1
\* speed = 0.2 + index * 0.1, in tenths
SpeedBase == 2
SpeedStep == 1

Sizes == 1..MaxSize
Times == 0..MaxTime

\* The objects addStuffToScene constructs for the batch in slot b
NewObjects(b) == {geometry(b), texture(b), material(b), mesh(b)}

\* Whether the program still refers to the batch in slot b: through cubes, the scene,
\* the tracker's set, or the resTracker of the iteration that waits to dispose of it
Reachable(b) ==
  \/ mesh(b) \in Range(cubes)
  \/ mesh(b) \in Range(children)
  \/ resources[tracker(b)] # <<>>
  \/ pc = "wait2" /\ resTracker = tracker(b)

\* The slot new objects are allocated in: the first one nothing refers to
FreeSlots == {b \in Slots : ~Reachable(b)}
NewSlot == CHOOSE b \in FreeSlots : \A c \in FreeSlots : b <= c

\* A faulty variant of addStuffToScene: the mesh is pushed on cubes, not added to the scene
addStuffToSceneNoAdd(b) ==
  /\ resources' = [resources EXCEPT ![tracker(b)] =
                     <<geometry(b), texture(b), material(b), mesh(b)>>]
  /\ released' = [o \in Objects |-> IF o \in NewObjects(b) THEN 0 ELSE released[o]]
  /\ UNCHANGED <<parent, children>>
  /\ cubes' = Append(cubes, mesh(b))
  /\ rotation' = [rotation EXCEPT ![mesh(b)] = <<0, 0>>]

\* addStuffToScene, for the batch in slot b: a new tracker, the geometry, the texture,
\* the material and the mesh tracked as they are constructed, the mesh added to the
\* scene and pushed on cubes
addStuffToScene(b) ==
  LET s1 == TrackSet(<<>>, geometry(b), nodeDispose)
      s2 == TrackSet(s1, texture(b), nodeDispose)
      s3 == TrackSet(s2, material(b), nodeDispose)
      s4 == TrackSet(s3, mesh(b), nodeDispose)
  IN /\ resources' = [resources EXCEPT ![tracker(b)] = s4]
     /\ released' = [o \in Objects |-> IF o \in NewObjects(b) THEN 0 ELSE released[o]]
     /\ parent' = [parent EXCEPT ![mesh(b)] = scene]
     /\ children' = AddChildren(children, mesh(b))
     /\ cubes' = Append(cubes, mesh(b))
     /\ rotation' = [rotation EXCEPT ![mesh(b)] = <<0, 0>>]

\* A faulty variant of waitSeconds: the timer is never set, the promise never resolves
waitSecondsNoTimer(seconds) == timer' = 0

\* waitSeconds(seconds): setTimeout(resolve, seconds * 1000)
waitSeconds(seconds) == timer' = seconds

\* main() to its end: process() runs to its first await, then the first frame is
\* requested
main ==
  /\ pc = "main"
  /\ FreeSlots # {}
  /\ addStuffToScene(NewSlot)
  /\ resTracker' = tracker(NewSlot)
  /\ waitSeconds(CreateToDestroy)
  /\ pc' = "wait2"
  /\ raf' = raf + 1
  /\ frame' = NoFrame
  /\ UNCHANGED <<nodeDispose, log, ret, threw, last, before, prev,
                 client, backing, aspect>>

\* process() resumed by the timer of waitSeconds(2): cubes emptied, the batch's tracker
\* disposed of, and waitSeconds(1); a throw in dispose() rejects process()
processTeardown ==
  /\ pc = "wait2"
  /\ timer = CreateToDestroy
  /\ LET s  == resources[resTracker]
         st == DisposeRun(s, parent, children, released, nodeDispose)
     IN /\ cubes' = <<>>
        /\ resources' = [resources EXCEPT ![resTracker] = DisposeSet(s, st)]
        /\ parent' = st.parent
        /\ children' = st.children
        /\ released' = st.released
        /\ log' = st.log
        /\ threw' = st.threw
        /\ IF st.threw
           THEN pc' = "rejected" /\ timer' = 0
           ELSE pc' = "wait1" /\ waitSeconds(DestroyToCreate)
  /\ frame' = NoFrame
  /\ UNCHANGED <<nodeDispose, ret, last, before, prev, resTracker, raf,
                 client, backing, aspect, rotation>>

\* process() resumed by the timer of waitSeconds(1): the next iteration of the loop
processPopulate ==
  /\ pc = "wait1"
  /\ timer = DestroyToCreate
  /\ FreeSlots # {}
  /\ addStuffToScene(NewSlot)
  /\ resTracker' = tracker(NewSlot)
  /\ waitSeconds(CreateToDestroy)
  /\ pc' = "wait2"
  /\ frame' = NoFrame
  /\ UNCHANGED <<nodeDispose, log, ret, threw, last, before, prev, raf,
                 client, backing, aspect>>

\* resizeRendererToDisplaySize: what it returns
resizeRendererToDisplaySize == backing # client

\* A faulty variant of Rotate: every mesh is turned, on cubes or not
RotateAll(rot, cs, t) == [n \in DOMAIN rot |-> <<t * SpeedBase, t * SpeedBase>>]

\* cubes.forEach: the cube at (0-based) index i turns to t * (0.2 + i * 0.1)
Rotate(rot, cs, t) ==
  [n \in DOMAIN rot |->
     IF n \in Range(cs)
     THEN LET i == CHOOSE k \in 1..Len(cs) :
                     cs[k] = n /\ \A m \in 1..Len(cs) : cs[m] = n => m <= k
              rotate == t * (SpeedBase + (i - 1) * SpeedStep)
          IN <<rotate, rotate>>
     ELSE rot[n]]

\* if (resizeRendererToDisplaySize(renderer)): renderer.setSize with the displayed
\* size, and camera.aspect = clientWidth / clientHeight
resizeStep(f) ==
  IF resizeRendererToDisplaySize
  THEN [f EXCEPT !.backing = client, !.aspect = client, !.steps = Append(@, "resize")]
  ELSE f

rotateStep(f, t) ==
  [f EXCEPT !.rotation = Rotate(@, cubes, t), !.steps = Append(@, "rotate")]

\* renderer.render(scene, camera), with the canvas size and camera.aspect of the moment
renderStep(f) ==
  [f EXCEPT !.size = f.backing, !.drawn = f.aspect, !.steps = Append(@, "render")]

\* requestAnimationFrame(animate)
requestStep(f) == [f EXCEPT !.raf = @ + 1, !.steps = Append(@, "request")]

\* A faulty variant of animateSteps: the scene is rendered before the canvas is resized
animateRenderFirst(f, t) == requestStep(rotateStep(resizeStep(renderStep(f)), t))

\* The body of animate, in the order of its statements
animateSteps(f, t) == requestStep(renderStep(rotateStep(resizeStep(f), t)))

\* The callback, taken off the pending ones, runs to its end
animateRun(t) ==
  LET f == animateSteps([backing |-> backing, aspect |-> aspect, rotation |-> rotation,
                         raf |-> raf - 1, steps |-> <<>>,
                         size |-> <<0, 0>>, drawn |-> <<0, 0>>], t)
  IN /\ backing' = f.backing
     /\ aspect' = f.aspect
     /\ rotation' = f.rotation
     /\ raf' = f.raf
     /\ frame' = Frame(f.steps, t, f.size, f.drawn)
     /\ UNCHANGED <<trackerVars, cubes, pc, resTracker, timer, client>>

\* A faulty variant of animate: a wait that blocks the thread, so that no frame runs
\* while a timer of waitSeconds is pending
animateBlocked(t) == raf > 0 /\ timer = 0 /\ animateRun(t)

\* animate(t): one frame
animate(t) == raf > 0 /\ animateRun(t)

\* The page lays the canvas out anew
canvasResized(w, h) ==
  /\ client # <<w, h>>
  /\ client' = <<w, h>>
  /\ frame' = NoFrame
  /\ UNCHANGED <<trackerVars, cubes, pc, resTracker, timer, raf,
                 backing, aspect, rotation>>

InitApp ==
  /\ resources = [t \in {tracker(b) : b \in Slots} |-> <<>>]
  /\ parent = [n \in Meshes |-> NoParent]
  /\ children = <<>>
  /\ released = [o \in Objects |-> 0]
  /\ nodeDispose = "none"
  /\ log = <<>>
  /\ ret = undefined
  /\ threw = FALSE
  /\ last = NoCall
  /\ before = <<>>
  /\ prev = NoCall
  /\ cubes = <<>>
  /\ pc = "main"
  /\ resTracker = undefined
  /\ timer = 0
  /\ raf = 0
  /\ client \in Sizes \X Sizes
  /\ backing \in Sizes \X Sizes
  /\ aspect = <<2, 1>>
  /\ rotation = [n \in Meshes |-> <<0, 0>>]
  /\ frame = NoFrame

NextApp ==
  \/ main
  \/ processTeardown
  \/ processPopulate
  \/ \E t \in Times : animate(t)
  \/ \E w, h \in Sizes : canvasResized(w, h)

SpecApp == InitApp /\ [][NextApp]_vars

\* Timers fire: the event loop runs a due timer's callback, and no frame blocks it
SpecAppFair ==
  SpecApp /\ WF_vars(main) /\ WF_vars(processTeardown) /\ WF_vars(processPopulate)

\* And the browser runs a pending requestAnimationFrame callback
SpecFrameFair == SpecAppFair /\ WF_vars(\E t \in Times : animate(t))

----------------------------------------------------------------------------
(* Properties of the tracker, checked under Spec *)

G1 == geometry(1)
X1 == texture(1)
M1 == material(1)
N1 == mesh(1)

Disposed == Call("dispose", undefined)

\* Number of times event e occurs in log l
Count(l, e) == Cardinality({i \in 1..Len(l) : l[i] = e})

NoDuplicates(s) == \A i, j \in 1..Len(s) : s[i] = s[j] => i = j

\* C1: for every resource r with a release method, track(r) on a tracker with nothing
\* tracked followed by dispose() invokes r's release exactly once: the call of dispose
\* performs one release of r, and r's count of releases goes up by one.
C1_TrackDisposeReleasesOnce ==
  [][\A r \in Inputs :
       (/\ last = Call("track", r)
        /\ before = <<>>
        /\ DisposeAttr(r, nodeDispose) = "fn"
        /\ last' = Disposed)
       => /\ Count(log', <<"release", r>>) = 1
          /\ released'[r] = released[r] + 1
          /\ ~threw']_vars

C1_Witness ==
  /\ last = Disposed
  /\ prev = Call("track", G1)
  /\ before = <<G1>>
  /\ log = << <<"release", G1>> >>
  /\ released[G1] = 1

\* C2: track is idempotent. The tracked set never holds a resource twice; track(r) of
\* a resource already tracked leaves the set as it was; and a dispose() that follows
\* never releases r twice: once if r has a release method and dispose returns, not at
\* all if r has none.
C2_TrackIdempotent ==
  [][/\ NoDuplicates(resources'[T0])
     /\ \A r \in Inputs :
          (last' = Call("track", r) /\ r \in Range(resources[T0]))
          => resources'[T0] = resources[T0]
     /\ \A r \in Inputs :
          (/\ last = Call("track", r)
           /\ r \in Range(before)
           /\ last' = Disposed)
          => /\ Count(log', <<"release", r>>) <= 1
             /\ released'[r] <= released[r] + 1
             /\ (DisposeAttr(r, nodeDispose) = "fn" /\ ~threw')
                  => (Count(log', <<"release", r>>) = 1 /\ released'[r] = released[r] + 1)
             /\ DisposeAttr(r, nodeDispose) # "fn"
                  => (Count(log', <<"release", r>>) = 0 /\ released'[r] = released[r])]_vars

C2_Witness ==
  /\ last = Call("track", M1)
  /\ M1 \in Range(before)
  /\ resources[T0] = before
  /\ Len(before) >= 2

\* The geometry, material and texture a mesh depends on
Dependents(n) == Refs(n) \cup UNION {Refs(d) : d \in Refs(n)}

\* C3: in dispose(), the detach of a node with a parent comes before the release of
\* every tracked geometry, material and texture the node depends on, whatever the order
\* they were tracked in.
C3_DetachBeforeDependents ==
  last = Disposed =>
    \A i, j \in 1..Len(log) :
      (/\ log[i][1] = "detach"
       /\ log[j][1] = "release"
       /\ log[j][2] \in Dependents(log[i][2]))
      => i < j

\* C4: untrack(r) followed by dispose() never releases r. After untrack(r), r is not
\* tracked; it stays untracked until track(r); and a dispose() while r is untracked
\* neither releases nor detaches r, while every resource that is tracked is released
\* (and a tracked node with a parent detached) when dispose returns.
C4_UntrackedNotReleased ==
  [][\A r \in Inputs :
       /\ last' = Call("untrack", r) => r \notin Range(resources'[T0])
       /\ (r \notin Range(resources[T0]) /\ last' # Call("track", r))
            => r \notin Range(resources'[T0])
       /\ (last = Call("untrack", r) /\ last' = Disposed)
            => /\ \A i \in 1..Len(log') : log'[i][2] # r
               /\ r \in Objects => released'[r] = released[r]
               /\ r \in Meshes => parent'[r] = parent[r]
               /\ ~threw' =>
                    \A o \in Range(resources[T0]) :
                      /\ DisposeAttr(o, nodeDispose) = "fn"
                           => released'[o] = released[o] + 1
                      /\ o \in Meshes => parent'[o] = NoParent]_vars

C4_Witness ==
  /\ last = Disposed
  /\ prev = Call("untrack", N1)
  /\ before = <<G1, M1>>
  /\ parent[N1] = scene
  /\ released[G1] = 1
  /\ released[M1] = 1
  /\ released[X1] = 0
  /\ nodeDispose = "fn"
  /\ released[N1] = 0

\* C5: when dispose() returns the tracked set is empty, and a dispose() of a tracker
\* with nothing tracked (a second dispose, or one of a tracker never used) releases
\* nothing, detaches nothing and raises nothing.
C5_DisposeClears ==
  [][last' = Disposed =>
       /\ ~threw' => resources'[T0] = <<>>
       /\ resources[T0] = <<>> =>
            /\ log' = <<>>
            /\ ~threw'
            /\ resources'[T0] = <<>>
            /\ released' = released
            /\ parent' = parent
            /\ children' = children]_vars

C5_Witness ==
  /\ last = Disposed
  /\ prev = Disposed
  /\ before = <<>>
  /\ released[G1] = 1
  /\ resources[T0] = <<>>
  /\ ~threw

\* C6: no cascade. A call of dispose() releases and detaches only members of the
\* tracked set: an object that is not tracked, also one that a tracked material or
\* mesh references, keeps its release count and its parent; track and untrack release
\* and detach nothing.
C6_NoCascade ==
  [][/\ last' = Disposed =>
          /\ \A i \in 1..Len(log') : log'[i][2] \in Range(resources[T0])
          /\ \A o \in Objects \ Range(resources[T0]) : released'[o] = released[o]
          /\ \A n \in Meshes \ Range(resources[T0]) : parent'[n] = parent[n]
          /\ \A n \in Range(children) \ Range(resources[T0]) : n \in Range(children')
     /\ last'.op \in {"track", "untrack"} =>
          /\ log' = <<>>
          /\ released' = released
          /\ parent' = parent
          /\ children' = children]_vars

C6_Witness ==
  /\ last = Disposed
  /\ before = <<M1, N1>>
  /\ log = << <<"release", M1>>, <<"detach", N1>> >>
  /\ released[M1] = 1
  /\ released[X1] = 0
  /\ released[G1] = 0

C8_NeverRaises == ~threw

\* C9: with G, X, M and N tracked (N's dispose absent or a method) and N a child of
\* the scene, dispose() leaves N out of the scene's children and without a parent,
\* has released G, X and M once each, and N once if N has a release method.
C9_EndToEnd ==
  [][(/\ last' = Disposed
      /\ Range(resources[T0]) = {G1, X1, M1, N1}
      /\ parent[N1] = scene
      /\ N1 \in Range(children)
      /\ nodeDispose # "notfn")
     => /\ N1 \notin Range(children')
        /\ parent'[N1] = NoParent
        /\ \A o \in {G1, X1, M1} :
             released'[o] = released[o] + 1 /\ Count(log', <<"release", o>>) = 1
        /\ released'[N1] = released[N1] + (IF nodeDispose = "fn" THEN 1 ELSE 0)
        /\ Count(log', <<"detach", N1>>) = 1
        /\ resources'[T0] = <<>>
        /\ ~threw']_vars

C9_Witness ==
  /\ last = Disposed
  /\ before = <<G1, X1, M1, N1>>
  /\ nodeDispose = "fn"
  /\ children = <<>>
  /\ parent[N1] = NoParent
  /\ log = << <<"release", G1>>, <<"release", X1>>, <<"release", M1>>,
              <<"detach", N1>>, <<"release", N1>> >>
  /\ \A o \in {G1, X1, M1, N1} : released[o] = 1

----------------------------------------------------------------------------
(* Properties of the batch driver, checked under SpecAppFair *)

Trackers == {tracker(b) : b \in Slots}

\* What the driver writes
driverVars == <<pc, timer, resTracker, cubes, resources, children, released>>

\* A Populate step: from the start or from the wait of 1, a new tracker holding a new
\* batch, its mesh pushed on cubes, and the wait of 2 begun
PopulateStep ==
  /\ pc \in {"main", "wait1"}
  /\ pc' = "wait2"
  /\ timer' = CreateToDestroy
  /\ resTracker' \in Trackers
  /\ resources[resTracker'] = <<>>
  /\ Len(resources'[resTracker']) = Cardinality(NewObjects(resTracker'[2]))
  /\ Range(resources'[resTracker']) = NewObjects(resTracker'[2])
  /\ cubes' = Append(cubes, mesh(resTracker'[2]))

\* A Teardown step: from the wait of 2, the tracker of the Populate before it disposed
\* of, cubes emptied, and the wait of 1 begun
TeardownStep ==
  /\ pc = "wait2"
  /\ pc' = "wait1"
  /\ timer' = DestroyToCreate
  /\ resTracker' = resTracker
  /\ resources[resTracker] # <<>>
  /\ resources'[resTracker] = <<>>
  /\ cubes' = <<>>

\* C10: the driver alternates Populate, Wait(2), Teardown, Wait(1) for ever, starting
\* with Populate: every step that changes what the driver writes is a Populate made at
\* the start or after a Teardown, or the Teardown of the tracker of the Populate before
\* it; and, timers firing, every Populate is followed by its Teardown and every
\* Teardown by the next Populate.
C10_DriverAlternates ==
  /\ [][driverVars' # driverVars => PopulateStep \/ TeardownStep]_vars
  /\ <>(pc = "wait2")
  /\ (pc = "wait2") ~> (pc = "wait1")
  /\ (pc = "wait1") ~> (pc = "wait2")

\* A batch is up after the Teardown of the batch before it
C10_Witness ==
  /\ pc = "wait2"
  /\ timer = CreateToDestroy
  /\ cubes = <<mesh(1)>>
  /\ children = <<mesh(1)>>
  /\ log # <<>>
  /\ released[geometry(1)] = 0
  /\ Len(resources[resTracker]) = 4

\* The geometry, material and texture addStuffToScene creates for the batch in slot b
BatchResources(b) == {geometry(b), material(b), texture(b)}

\* The batch in slot b is up: process() waits to dispose of its tracker
Live(b) == pc = "wait2" /\ resTracker = tracker(b)

\* C11: every Teardown leaves cubes empty, the batch's mesh out of the scene's children
\* and without a parent, and the geometry, material and texture of the matching
\* Populate released exactly once, none of them released before; over the cycles no
\* object is released twice, and the resources of a batch that is no longer up are
\* all released: release counts change only in a Teardown (of that batch) and when a
\* Populate constructs new objects.
C11_TeardownReleasesBatch ==
  /\ [][(pc = "wait2" /\ pc' # "wait2") =>
          LET b == resTracker[2]
          IN /\ cubes' = <<>>
             /\ mesh(b) \notin Range(children')
             /\ parent'[mesh(b)] = NoParent
             /\ resources'[resTracker] = <<>>
             /\ \A o \in BatchResources(b) :
                  /\ released[o] = 0
                  /\ released'[o] = 1
                  /\ Count(log', <<"release", o>>) = 1]_vars
  /\ [][\A b \in Slots : \A o \in NewObjects(b) :
          released'[o] # released[o] =>
            \/ Live(b) /\ ~Live(b)' /\ released'[o] = released[o] + 1
            \/ ~Live(b) /\ Live(b)' /\ released'[o] = 0]_vars
  /\ [](\A o \in Objects : released[o] <= 1)
  /\ [](\A b \in Slots :
          (~Live(b) /\ pc # "main") =>
             \/ \A o \in BatchResources(b) : released[o] = 1
             \/ \A o \in NewObjects(b) : released[o] = 0 /\ b # 1)

\* A batch has been up and its Teardown has run
C11_Witness ==
  /\ pc = "wait1"
  /\ timer = DestroyToCreate
  /\ cubes = <<>>
  /\ children = <<>>
  /\ parent[mesh(1)] = NoParent
  /\ \A o \in BatchResources(1) : released[o] = 1
  /\ released[mesh(1)] = 0
  /\ log = << <<"release", geometry(1)>>, <<"release", texture(1)>>,
              <<"release", material(1)>>, <<"detach", mesh(1)>> >>

\* What a frame writes: the orientation of the cubes, the canvas size, camera.aspect
frameVars == <<rotation, backing, aspect>>

\* The batch in slot b as a Populate leaves it: tracked, in the scene, on cubes
BatchUp(b) ==
  /\ Range(resources[tracker(b)]) = NewObjects(b)
  /\ parent[mesh(b)] = scene
  /\ mesh(b) \in Range(children)
  /\ mesh(b) \in Range(cubes)

\* The batch in slot b as a Teardown leaves it, or before it is created
BatchDown(b) ==
  /\ resources[tracker(b)] = <<>>
  /\ parent[mesh(b)] = NoParent
  /\ mesh(b) \notin Range(children)
  /\ mesh(b) \notin Range(cubes)

\* C12: the driver and the frames interleave only at the two waits. A step of the
\* driver (a Populate or a Teardown) writes nothing a frame writes, but the orientation
\* of the mesh it constructs; a step that writes what a frame writes leaves all the
\* driver's state alone and is taken while the driver is suspended in a wait; every
\* state, hence every state a frame starts in, has each batch wholly up or wholly
\* down; and in each wait a frame can run (whatever the frames before it), and so can
\* the driver's next step without any frame.
C12_InterleaveAtWaits ==
  /\ [][pc' # pc =>
          /\ backing' = backing
          /\ aspect' = aspect
          /\ \A n \in Meshes : rotation'[n] # rotation[n] => n \notin Range(cubes)]_vars
  /\ [][(frameVars' # frameVars /\ pc' = pc) =>
          /\ pc \in {"wait1", "wait2"}
          /\ driverVars' = driverVars
          /\ parent' = parent]_vars
  /\ [](\A b \in Slots : IF Live(b) THEN BatchUp(b) ELSE BatchDown(b))
  /\ [](pc \in {"wait1", "wait2"} => raf = 1 /\ ENABLED (\E t \in Times : animate(t)))
  /\ [](pc = "wait2" => ENABLED processTeardown)
  /\ [](pc = "wait1" => ENABLED processPopulate)

\* Frames have run between the driver's steps: one turned the cube while its batch was
\* up, one resized the canvas, and the batch has since been torn down
C12_Witness ==
  /\ pc = "wait1"
  /\ raf = 1
  /\ rotation[mesh(1)] = <<2 * SpeedBase, 2 * SpeedBase>>
  /\ BatchDown(1)
  /\ backing = <<2, 2>>
  /\ aspect = <<2, 2>>
  /\ client = <<2, 2>>

\* C13: a frame writes no membership. A step of animate leaves cubes (members and
\* order), scene.children, every tracker's set, every release count and every parent
\* as they were, and the driver's position and timer too; it changes nothing but the
\* orientation of the meshes on cubes, the canvas size and camera.aspect.
C13_FrameWritesNoMembership ==
  [][(\E t \in Times : animate(t)) =>
       /\ cubes' = cubes
       /\ children' = children
       /\ \A k \in Trackers : resources'[k] = resources[k]
       /\ released' = released
       /\ parent' = parent
       /\ log' = log
       /\ <<pc, timer, resTracker, client>>' = <<pc, timer, resTracker, client>>
       /\ \A n \in Meshes \ Range(cubes) : rotation'[n] = rotation[n]]_vars

\* A frame has turned the cube of a batch that is up and has resized the canvas
C13_Witness ==
  /\ Live(1)
  /\ BatchUp(1)
  /\ cubes = <<mesh(1)>>
  /\ rotation[mesh(1)] = <<SpeedBase, SpeedBase>>
  /\ rotation[mesh(2)] = <<0, 0>>
  /\ client = <<1, 2>>
  /\ backing = <<1, 2>>
  /\ aspect = <<1, 2>>
  /\ \A o \in Objects : released[o] = 0

\* s is t with the one member x taken out, the others in the order they had
Without(s, t, x) ==
  /\ Len(s) = Len(t) - 1
  /\ Range(s) = Range(t) \ {x}
  /\ \A i, j \in 1..Len(s) :
       i < j => \E k, m \in 1..Len(t) : k < m /\ t[k] = s[i] /\ t[m] = s[j]

\* C14: untrack(r) of a resource that is not tracked changes nothing: the set is as it
\* was, nothing is released or detached, nothing is raised; untrack(r) of a tracked
\* resource takes out r and only r, the others staying in their order, and releases
\* and detaches nothing either.
C14_UntrackExactlyOne ==
  [][last'.op = "untrack" =>
       LET r == last'.arg
       IN /\ ~threw'
          /\ ret' = undefined
          /\ log' = <<>>
          /\ released' = released
          /\ parent' = parent
          /\ children' = children
          /\ IF r \in Range(resources[T0])
             THEN Without(resources'[T0], resources[T0], r)
             ELSE resources'[T0] = resources[T0]]_vars

\* untrack(texture) has taken the texture from between the geometry and the material
C14_Witness ==
  /\ last = Call("untrack", X1)
  /\ before = <<G1, X1, M1>>
  /\ resources[T0] = <<G1, M1>>
  /\ ~threw
  /\ released[X1] = 0

----------------------------------------------------------------------------
(* Properties of the render loop, checked under SpecFrameFair *)

\* C15: a frame resizes (when it does), then turns the cubes, then renders, then
\* requests the next frame. It resizes the canvas and sets camera.aspect exactly when
\* the canvas size differed from the displayed size when the frame began, so that it
\* renders with the canvas at the displayed size and the camera's aspect of the moment.
\* It runs as the one pending callback and leaves one pending; and, the browser running
\* pending callbacks, frames occur again and again.
C15_FrameOrder ==
  /\ [][frame' # NoFrame =>
          /\ frame'.steps = IF backing # client
                            THEN <<"resize", "rotate", "render", "request">>
                            ELSE <<"rotate", "render", "request">>
          /\ backing # client => backing' = client /\ aspect' = client
          /\ backing = client => backing' = backing /\ aspect' = aspect
          /\ frame'.size = client
          /\ frame'.size = backing'
          /\ frame'.aspect = aspect'
          /\ raf = 1
          /\ raf' = 1]_vars
  /\ [](raf <= 1)
  /\ []<><<\E t \in Times : animate(t)>>_vars

\* A frame that found the canvas at another size than displayed has resized it, turned
\* the cube and rendered
C15_Witness ==
  /\ frame = Frame(<<"resize", "rotate", "render", "request">>, 1, <<2, 1>>, <<2, 1>>)
  /\ client = <<2, 1>>
  /\ backing = <<2, 1>>
  /\ aspect = <<2, 1>>
  /\ raf = 1
  /\ cubes = <<mesh(1)>>
  /\ rotation[mesh(1)] = <<SpeedBase, SpeedBase>>

\* C16: in every state, so at the start of every frame wherever it falls between the
\* driver's steps, each mesh on cubes (what the frame turns) is a child of the scene
\* with the scene as parent, and each mesh on cubes or in the scene (what the frame
\* renders) has its geometry, material and texture unreleased.
C16_FramesSeeLiveNodes ==
  /\ \A n \in Range(cubes) : parent[n] = scene /\ n \in Range(children)
  /\ \A n \in Range(cubes) \cup Range(children) :
       \A o \in Dependents(n) : released[o] = 0

\* A frame has turned and rendered the cube of a batch created after a Teardown
C16_Witness ==
  /\ frame # NoFrame
  /\ frame.t = 2
  /\ log # <<>>
  /\ cubes = <<mesh(1)>>
  /\ children = <<mesh(1)>>
  /\ parent[mesh(1)] = scene
  /\ rotation[mesh(1)] = <<2 * SpeedBase, 2 * SpeedBase>>
  /\ \A o \in Dependents(mesh(1)) : released[o] = 0

\* C17: at most one batch is up at a time. In every state cubes holds at most one mesh,
\* the scene has at most one child and at most one tracker has anything tracked; so a
\* frame turns a cube at index 0 only, to its timestamp times the speed of index 0.
C17_OneBatchLive ==
  /\ [](/\ Len(cubes) <= 1
        /\ Len(children) <= 1
        /\ Cardinality({k \in Trackers : resources[k] # <<>>}) <= 1)
  /\ [][frame' # NoFrame =>
          \A n \in Range(cubes) :
            /\ cubes[1] = n
            /\ rotation'[n] = <<frame'.t * SpeedBase, frame'.t * SpeedBase>>]_vars

\* The batch created after a Teardown is the only one up, and a frame has turned its cube
C17_Witness ==
  /\ Live(1)
  /\ log # <<>>
  /\ cubes = <<mesh(1)>>
  /\ children = <<mesh(1)>>
  /\ Len(resources[tracker(1)]) = 4
  /\ \A b \in Slots \ {1} : resources[tracker(b)] = <<>>
  /\ frame # NoFrame
  /\ frame.t = 1
  /\ rotation[mesh(1)] = <<SpeedBase, SpeedBase>>

----------------------------------------------------------------------------
(* Properties of a dispose() that raises, and of a tracker used again, under Spec *)

\* C18: a dispose() that raises stops at the resource whose release raised. The
\* resources before it in the set are released (once each in the call) and, nodes with
\* a parent, detached; that resource is not released; the ones after it are neither
\* released nor detached; the set is left as it was, with all of them. A dispose()
\* made again then releases once more every resource the first call released.
C18_ThrowStopsDispose ==
  [][/\ (last' = Disposed /\ threw') =>
          LET s == resources[T0]
          IN /\ resources'[T0] = s
             /\ \E k \in 1..Len(s) :
                  /\ DisposeAttr(s[k], nodeDispose) = "notfn"
                  /\ released'[s[k]] = released[s[k]]
                  /\ parent'[s[k]] = NoParent
                  /\ \A i \in 1..(k - 1) :
                       /\ DisposeAttr(s[i], nodeDispose) = "fn"
                       /\ released'[s[i]] = released[s[i]] + 1
                       /\ Count(log', <<"release", s[i]>>) = 1
                  /\ \A i \in (k + 1)..Len(s) :
                       /\ released'[s[i]] = released[s[i]]
                       /\ \A j \in 1..Len(log') : log'[j][2] # s[i]
     /\ (last = Disposed /\ threw /\ last' = Disposed) =>
          /\ before = resources[T0]
          /\ log' = SelectSeq(log, LAMBDA e : e[1] = "release")
          /\ \A j \in 1..Len(log) :
               log[j][1] = "release" =>
                 /\ Count(log', log[j]) = 1
                 /\ released'[log[j][2]] = released[log[j][2]] + 1
                 /\ released'[log[j][2]] >= 2]_vars

\* dispose() has raised at the mesh twice: the geometry before it is released twice,
\* the material after it not at all, and all three are still tracked
C18_Witness ==
  /\ last = Disposed
  /\ prev = Disposed
  /\ threw
  /\ nodeDispose = "notfn"
  /\ before = <<G1, N1, M1>>
  /\ resources[T0] = <<G1, N1, M1>>
  /\ log = << <<"release", G1>> >>
  /\ released[G1] = 2
  /\ released[M1] = 0
  /\ released[N1] = 0
  /\ parent[N1] = NoParent

\* C19: a tracker remembers nothing of what it disposed of. With the set empty again,
\* track(r) followed by dispose() makes one release, of r, and touches no object but r,
\* so nothing released by an earlier dispose() is released again; if r is new its count
\* of releases becomes 1, and if r was released before, its release is invoked again.
C19_NoMemoryOfDisposed ==
  [][\A r \in Inputs :
       (/\ last = Call("track", r)
        /\ before = <<>>
        /\ DisposeAttr(r, nodeDispose) = "fn"
        /\ last' = Disposed)
       => /\ SelectSeq(log', LAMBDA e : e[1] = "release") = << <<"release", r>> >>
          /\ \A j \in 1..Len(log') : log'[j][2] = r
          /\ ~threw'
          /\ resources'[T0] = <<>>
          /\ \A o \in Objects \ {r} : released'[o] = released[o]
          /\ \A n \in Meshes \ {r} : parent'[n] = parent[n]
          /\ released[r] = 0 => released'[r] = 1
          /\ released[r] >= 1 => released'[r] = released[r] + 1]_vars

\* After a first batch (geometry, material) was disposed of, the texture was tracked
\* and disposed of, then the geometry tracked and disposed of again: the geometry is
\* released twice, the material and the texture once
C19_Witness ==
  /\ last = Disposed
  /\ prev = Call("track", G1)
  /\ before = <<G1>>
  /\ resources[T0] = <<>>
  /\ log = << <<"release", G1>> >>
  /\ released[G1] = 2
  /\ released[M1] = 1
  /\ released[X1] = 1
  /\ ~threw

====
